---- MODULE Spec2Model ----
(***************************************************************************)
(* Streaming forecast-and-alert pipeline.                                  *)
(*                                                                         *)
(*   mqtt_producer.py                      plays a dataset, one row/message *)
(*   Broker_Forecasting_Temperature_file.py  window + rolling forecast      *)
(*   Second_IoT_Screen.py                  threshold alerts on a bundle     *)
(*                                                                         *)
(* Temperatures are integers (degrees).  Python None / JSON null in a      *)
(* numeric position is the value None, a float NaN is the value NaN.       *)
(* Instants are whole hours; an ISO-8601 string is a record holding the    *)
(* hour and the text of its UTC-offset suffix.                             *)
(***************************************************************************)
EXTENDS Integers, Sequences, FiniteSets, TLC

(* ----------------------------------------------------------------------- *)
(* Bounds of the model                                                     *)
(* ----------------------------------------------------------------------- *)
\* messages appended to the window in one run (> lookback: eviction happens)
MaxReadings == 12
\* deliveries in one run that are not the producer's next row, well formed
MaxDeviations == 1

(* ----------------------------------------------------------------------- *)
(* Values                                                                  *)
(* ----------------------------------------------------------------------- *)
None == 0 - 1000
NaN == 0 - 2000

IsNumber(x) == x # None /\ x # NaN

\* an ISO-8601 string: the instant (in hours) and the offset suffix as written
Iso(h, sfx) == [kind |-> "str", hour |-> h, sfx |-> sfx]
\* the field is absent (data.get gives None) or JSON null
NoTimestamp == [kind |-> "None", hour |-> 0, sfx |-> ""]

HoursPerDay == 24

\* str.replace('Z', '+00:00')
replace_Z(s) == IF s.sfx = "Z" THEN [s EXCEPT !.sfx = "+00:00"] ELSE s

\* datetime.fromisoformat raises ValueError on anything but an ISO string
fromisoformat_raises(s) == s.sfx \notin {"", "+00:00"}

\* datetime.fromisoformat: naive without a suffix, aware with one
fromisoformat(s) == [hour |-> s.hour, tz |-> IF s.sfx = "" THEN "naive" ELSE "utc"]

\* datetime + timedelta(days=i)
timedelta_days(dt, i) == [dt EXCEPT !.hour = @ + i * HoursPerDay]

\* datetime.isoformat()
isoformat(dt) == Iso(dt.hour, IF dt.tz = "naive" THEN "" ELSE "+00:00")

\* list(s)[-n:]
LastN(s, n) == IF Len(s) <= n THEN s ELSE SubSeq(s, Len(s) - n + 1, Len(s))

\* variant: the handlers name the one exception they expect
catches_json_only(error) == error = "JSONDecodeError"

\* "except Exception as e": every error raised by a handler's body is caught
catches(error) == error \in {"JSONDecodeError", "AttributeError", "ValueError",
                             "TypeError", "PredictError"}

\* what a handler prints when its body raises: the line of its except clause,
\* or the interpreter's traceback when the error is not caught there
report(error, line) == IF catches(error) THEN line ELSE "Traceback"

(* ----------------------------------------------------------------------- *)
(* Broker_Forecasting_Temperature_file.py                                  *)
(* ----------------------------------------------------------------------- *)
lookback == 10
number_of_future_forecasts == 10

\* variant: appendleft, the newest entry first
deque_append_left(d, x, maxlen) ==
    IF Len(d) >= maxlen THEN <<x>> \o SubSeq(d, 1, Len(d) - 1) ELSE <<x>> \o d

\* variant: a deque built without maxlen
deque_append_unbounded(d, x, maxlen) == Append(d, x)

\* deque(maxlen=...).append: a full deque drops its leftmost entry
deque_append(d, x, maxlen) ==
    IF Len(d) >= maxlen THEN Append(Tail(d), x) ELSE Append(d, x)

\* The fitted MinMaxScaler.  x * scale_ + min_ with scale_ = 1/(data_max_ -
\* data_min_) and min_ = -data_min_ * scale_; scaled values are kept in units
\* of scale_, so that they stay integers.
data_min_ == 5

scaler_transform(x) == IF IsNumber(x) THEN x - data_min_ ELSE NaN

scaler_inverse_transform(y) == IF IsNumber(y) THEN y + data_min_ ELSE NaN

\* The loaded Keras model is opaque: any of these single-step predictors.
Models == {"constant", "drift", "oldest"}

constant_output == 3

\* model.predict(last_input) on a (1, lookback, 1) input
predict(m, x) ==
    IF \E k \in 1..Len(x) : ~IsNumber(x[k]) THEN NaN
    ELSE CASE m = "constant" -> constant_output
           [] m = "drift" -> x[Len(x)] + 1
           [] OTHER -> x[1]

\* the pass of the loop in which model.predict raises (the first, the last);
\* 0: it never does
FailAt == {0, 1, number_of_future_forecasts}

\* variant: the prediction is stored but the buffer is not slid
rolling_step_noslide(m, st) ==
    LET future_prediction == predict(m, st.last_input)
    IN  [last_input |-> st.last_input,
         future_forecasts |->
             [st.future_forecasts EXCEPT ![st.i + 1] = future_prediction],
         i |-> st.i + 1]

\* variant: every prediction is stored in future_forecasts[0]
rolling_step_first_slot(m, st) ==
    LET future_prediction == predict(m, st.last_input)
    IN  [last_input |-> Append(Tail(st.last_input), future_prediction),
         future_forecasts |->
             [st.future_forecasts EXCEPT ![1] = future_prediction],
         i |-> st.i + 1]

\* one pass of the loop body, lines 79-82, for i = st.i (0-based)
rolling_step(m, st) ==
    LET future_prediction == predict(m, st.last_input)
    IN  [last_input |-> Append(Tail(st.last_input), future_prediction),
         future_forecasts |->
             [st.future_forecasts EXCEPT ![st.i + 1] = future_prediction],
         i |-> st.i + 1]

\* lines 73-77: scale, reshape, np.zeros
rolling_begin(new_data) ==
    [last_input |-> [k \in 1..Len(new_data) |-> scaler_transform(new_data[k])],
     future_forecasts |-> [k \in 1..number_of_future_forecasts |-> 0],
     i |-> 0]

RECURSIVE rolling_loop(_, _)
rolling_loop(m, st) ==
    IF st.i >= number_of_future_forecasts THEN st
    ELSE rolling_loop(m, rolling_step(m, st))

\* line 86
rolling_end(st) ==
    [k \in 1..Len(st.future_forecasts) |->
        scaler_inverse_transform(st.future_forecasts[k])]

\* variant: a failing pass ends the loop and what was filled in is returned
predict_with_loaded_model_partial(m, data, lb, fail_at) ==
    IF Len(data) # lb THEN [raised |-> TRUE, forecasts |-> <<>>]
    ELSE [raised |-> FALSE,
          forecasts |-> IF fail_at # 0
                        THEN rolling_end(rolling_begin(data))
                        ELSE rolling_end(rolling_loop(m, rolling_begin(data)))]

\* predict_with_loaded_model; reshape(1, lookback, 1) raises on another length
predict_with_loaded_model(m, data, lb, fail_at) ==
    IF Len(data) # lb THEN [raised |-> TRUE, forecasts |-> <<>>]
    ELSE IF fail_at # 0 THEN [raised |-> TRUE, forecasts |-> <<>>]
    ELSE [raised |-> FALSE,
          forecasts |-> rolling_end(rolling_loop(m, rolling_begin(data)))]

VARIABLES
    temperatures,   \* deque(maxlen=lookback)
    timestamps,     \* deque(maxlen=lookback)
    model,          \* the model loaded at start-up
    msg,            \* payload of the latest call of on_message
    printed,        \* what that call printed
    published,      \* what that call published on the FORECAST topic
    raised_at,      \* the pass in which model.predict raised in that call, or 0
    arrived,        \* history: every reading appended so far, with its sensor_id
    row,            \* the producer's row delivered last
    deviations,     \* deliveries so far that were not the next row as sent
    calls,          \* invocations of on_message that have not returned yet
    \* one call of predict_with_loaded_model, taken pass by pass
    new_data,           \* its argument
    last_input,         \* the working buffer
    future_forecasts,   \* np.zeros((number_of_future_forecasts, 1)), filled in
    step_i,             \* the loop's i
    returned,           \* the value returned
    pc                  \* "idle", "loop", "raised", "done"

fvars == <<temperatures, timestamps, model, msg, printed, published, raised_at,
           arrived, row, deviations, calls>>

pvars == <<new_data, last_input, future_forecasts, step_i, returned, pc>>

\* variant: range(number_of_future_forecasts) in place of range(1, ... + 1)
future_timestamps_from_zero(last_datetime) ==
    [i \in 1..number_of_future_forecasts |->
        isoformat(timedelta_days(last_datetime, i - 1))]

\* lines 124-127
future_timestamps_of(last_datetime) ==
    [i \in 1..number_of_future_forecasts |->
        isoformat(timedelta_days(last_datetime, i))]

\* the message of lines 133-139
forecast_message(sensor_timestamp, sensor_data, future_timestamps, forecasts) ==
    [sensor_id |-> 1,
     sensor_timestamp |-> sensor_timestamp,
     sensor_data |-> sensor_data,
     future_timestamps |-> future_timestamps,
     forecasts |-> forecasts]

\* variant: a forecast once per lookback readings, not once per reading
window_full_tumbling(temps) ==
    Len(temps) >= lookback /\ (Len(arrived) + 1) % lookback = 0

\* variant: off by one
window_full_early(temps) == Len(temps) >= lookback - 1

\* line 109
window_full(temps) == Len(temps) >= lookback

\* lines 109-144, after the two appends
forecast_branch(temps, tss, fail_at) ==
    IF window_full(temps)
    THEN LET reordered_temperature_data == LastN(temps, lookback)
             reordered_timestamp_data == LastN(tss, lookback)
             last_timestamp == reordered_timestamp_data[Len(reordered_timestamp_data)]
             parsed == replace_Z(last_timestamp)
             result == predict_with_loaded_model(model, reordered_temperature_data,
                                                 lookback, fail_at)
         IN  IF last_timestamp.kind = "str" /\ fromisoformat_raises(parsed)
             THEN [printed |-> report("ValueError", "ValueError"), raised_at |-> 0, published |-> <<>>]
             ELSE IF last_timestamp.kind # "str"
             THEN [printed |-> report("TypeError", "TypeError"), raised_at |-> 0, published |-> <<>>]
             ELSE IF result.raised
             THEN [printed |-> report("PredictError", "PredictError"), raised_at |-> fail_at,
                   published |-> <<>>]
             ELSE [printed |-> "", raised_at |-> fail_at,
                   published |-> <<forecast_message(
                       reordered_timestamp_data, reordered_temperature_data,
                       future_timestamps_of(fromisoformat(parsed)),
                       result.forecasts)>>]
    ELSE [printed |-> "Not enough data for prediction yet.", raised_at |-> 0,
          published |-> <<>>]

\* on_message of the forecaster, lines 101-146
on_message(payload, fail_at) ==
    /\ msg' = payload
    /\ UNCHANGED <<model, calls>>
    /\ IF payload.kind = "invalid_json"
       THEN /\ printed' = report("JSONDecodeError", "JSONDecodeError")
            /\ published' = <<>>
            /\ raised_at' = 0
            /\ UNCHANGED <<temperatures, timestamps, arrived>>
       ELSE IF payload.kind # "object"
       THEN /\ printed' = report("AttributeError", "AttributeError")
            /\ published' = <<>>
            /\ raised_at' = 0
            /\ UNCHANGED <<temperatures, timestamps, arrived>>
       ELSE LET temp == payload.temperature
                ts == payload.timestamp
                temps == deque_append(temperatures, temp, lookback)
                tss == deque_append(timestamps, ts, lookback)
                out == forecast_branch(temps, tss, fail_at)
            IN  /\ temperatures' = temps
                /\ timestamps' = tss
                /\ arrived' = Append(arrived, [temperature |-> temp, timestamp |-> ts,
                                               sensor_id |-> payload.sensor_id])
                /\ printed' = out.printed
                /\ raised_at' = out.raised_at
                /\ published' = out.published

(* ----------------------------------------------------------------------- *)
(* mqtt_producer.py and the transport                                      *)
(* ----------------------------------------------------------------------- *)
\* the dataset's temperature column
TemperatureOfRow(d) == 10 + d

\* the message of lines 53-57 for row d, one row a day
Row(d) ==
    [kind |-> "object", sensor_id |-> 1, temperature |-> TemperatureOfRow(d),
     timestamp |-> Iso(d * HoursPerDay, "")]

InvalidJson == [kind |-> "invalid_json", sensor_id |-> 0, temperature |-> None,
                timestamp |-> NoTimestamp]

JsonArray == [kind |-> "array", sensor_id |-> 0, temperature |-> None,
              timestamp |-> NoTimestamp]

\* what the transport may hand to on_message next: the payload, the row it
\* leaves the producer at, and whether it deviates from the stream as sent
Deliveries ==
    {[payload |-> Row(row + 1), row |-> row + 1, dev |-> 0]}
    \cup {[payload |-> InvalidJson, row |-> row, dev |-> 0],
          [payload |-> JsonArray, row |-> row, dev |-> 0]}
    \cup (IF deviations >= MaxDeviations THEN {} ELSE
          {[payload |-> Row(row + 2), row |-> row + 2, dev |-> 1],
           [payload |-> Row(1), row |-> row, dev |-> 1],
           [payload |-> [Row(row + 1) EXCEPT !.temperature = None],
            row |-> row + 1, dev |-> 1],
           [payload |-> [Row(row + 1) EXCEPT !.timestamp = NoTimestamp],
            row |-> row + 1, dev |-> 1],
           [payload |-> [Row(row + 1) EXCEPT !.timestamp.sfx = "not a date"],
            row |-> row + 1, dev |-> 1],
           [payload |-> [Row(row + 1) EXCEPT !.timestamp.sfx = "Z"],
            row |-> row + 1, dev |-> 1],
           [payload |-> [Row(row + 1) EXCEPT !.sensor_id = 2],
            row |-> row + 1, dev |-> 1]})

(* ----------------------------------------------------------------------- *)
(* Second_IoT_Screen.py                                                    *)
(* ----------------------------------------------------------------------- *)
LOW_WARNING_THRESHOLD == 18
LOW_ERROR_THRESHOLD == 10
HIGH_WARNING_THRESHOLD == 25
HIGH_ERROR_THRESHOLD == 30

\* bundles waiting in data_queue at any time
MaxQueue == 2
\* length of a forecasts list handed to check_thresholds
MaxForecasts == 3
\* bundles put on data_queue in one run whose history is kept
MaxBundles == 4

VARIABLES
    data_queue,                 \* queue.Queue()
    plot_data,                  \* the global dictionary
    current_background_color,   \* RealTimeForecastPlotter's held colour
    facecolor,                  \* the colour fig.patch and ax are drawn with
    alert_text,                 \* the alert Text artist: text, color, bbox, visible
    alert_status,               \* the latest tick's assessment, "unset" before it
    alert_messages,
    screen_printed,             \* what the screen's latest handler printed
    prev_status,                \* history: the assessment of the tick before
    prev_messages,
    enqueued,                   \* history: every bundle put on data_queue
    dequeued                    \* history: every bundle taken from it

cvars == <<data_queue, plot_data, current_background_color, facecolor,
           alert_text, alert_status, alert_messages, screen_printed,
           prev_status, prev_messages, enqueued, dequeued>>

(* ----------------------------------------------------------------------- *)
(* mqtt_listener.py                                                        *)
(* ----------------------------------------------------------------------- *)
N == 100

VARIABLES
    listener_temperatures,  \* deque(maxlen=N)
    listener_timestamps,    \* deque(maxlen=N)
    listener_printed,       \* what the listener's latest call printed
    observed                \* the program a behaviour follows, "any" for all

lvars == <<listener_temperatures, listener_timestamps, listener_printed, observed>>

vars == <<fvars, pvars, cvars, lvars>>

\* line 34's "len(temperatures)" standing in for a timestamp
IntStamp(n) == [kind |-> "int", hour |-> n, sfx |-> ""]

\* on_message of the listener, lines 27-43
listener_on_message(payload) ==
    IF payload.kind = "invalid_json"
    THEN /\ listener_printed' = report("JSONDecodeError", "Error processing message")
         /\ UNCHANGED <<listener_temperatures, listener_timestamps>>
    ELSE IF payload.kind # "object"
    THEN /\ listener_printed' = report("AttributeError", "Error processing message")
         /\ UNCHANGED <<listener_temperatures, listener_timestamps>>
    ELSE LET temp == payload.temperature
             ts == payload.timestamp
             temps == deque_append(listener_temperatures, temp, N)
         IN  /\ IF temp # None
                THEN /\ listener_temperatures' = temps
                     /\ listener_timestamps' =
                            deque_append(listener_timestamps,
                                         IF ts.kind = "str" THEN ts
                                         ELSE IntStamp(Len(temps)), N)
                ELSE UNCHANGED <<listener_temperatures, listener_timestamps>>
             /\ listener_printed' = "Received message"

\* one line of the alert: a header, a violation or the count of the rest
Entry(kind, label, value, op, threshold, more) ==
    [kind |-> kind, label |-> label, value |-> value, op |-> op,
     threshold |-> threshold, more |-> more]

\* f"{value:.2f}": the digits printed, as hundredths
format_2f(value) == value * 100

\* f"{value_type}: {value:.2f}C > {threshold}C"
violation_message(value_type, value, op, threshold) ==
    Entry("violation", value_type, format_2f(value), op, threshold, 0)

more_message(n) == Entry("more", "more violations", 0, "", 0, n)

ERROR_HEADER == Entry("header", "ERROR THRESHOLD EXCEEDED!", 0, "", 0, 0)

WARNING_HEADER == Entry("header", "WARNING THRESHOLD EXCEEDED!", 0, "", 0, 0)

\* variant: nothing is checked unless both lists have entries
values_to_check_both(pd) ==
    IF pd.sensor_data # <<>> /\ pd.forecasts # <<>>
    THEN <<[value_type |-> "Current Sensor",
            value |-> pd.sensor_data[Len(pd.sensor_data)]]>>
         \o [k \in 1..Len(pd.forecasts) |->
                [value_type |-> "Forecast", value |-> pd.forecasts[k]]]
    ELSE <<>>

\* lines 104-114: last sensor value, then every forecast value
values_to_check(pd) ==
    (IF pd.sensor_data # <<>>
     THEN <<[value_type |-> "Current Sensor",
             value |-> pd.sensor_data[Len(pd.sensor_data)]]>>
     ELSE <<>>)
    \o [k \in 1..Len(pd.forecasts) |->
           [value_type |-> "Forecast", value |-> pd.forecasts[k]]]

\* variant: the comparisons are not strict
violation_of_nonstrict(value_type, value) ==
    IF value = NaN THEN [tier |-> "none", message |-> ERROR_HEADER]
    ELSE IF value >= HIGH_ERROR_THRESHOLD
    THEN [tier |-> "error",
          message |-> violation_message(value_type, value, ">", HIGH_ERROR_THRESHOLD)]
    ELSE IF value <= LOW_ERROR_THRESHOLD
    THEN [tier |-> "error",
          message |-> violation_message(value_type, value, "<", LOW_ERROR_THRESHOLD)]
    ELSE IF value >= HIGH_WARNING_THRESHOLD
    THEN [tier |-> "warning",
          message |-> violation_message(value_type, value, ">", HIGH_WARNING_THRESHOLD)]
    ELSE IF value <= LOW_WARNING_THRESHOLD
    THEN [tier |-> "warning",
          message |-> violation_message(value_type, value, "<", LOW_WARNING_THRESHOLD)]
    ELSE [tier |-> "none", message |-> ERROR_HEADER]

\* lines 124-131 for one value: the list it goes to and the line appended;
\* every comparison with a NaN is False
violation_of(value_type, value) ==
    IF value = NaN THEN [tier |-> "none", message |-> ERROR_HEADER]
    ELSE IF value > HIGH_ERROR_THRESHOLD
    THEN [tier |-> "error",
          message |-> violation_message(value_type, value, ">", HIGH_ERROR_THRESHOLD)]
    ELSE IF value < LOW_ERROR_THRESHOLD
    THEN [tier |-> "error",
          message |-> violation_message(value_type, value, "<", LOW_ERROR_THRESHOLD)]
    ELSE IF value > HIGH_WARNING_THRESHOLD
    THEN [tier |-> "warning",
          message |-> violation_message(value_type, value, ">", HIGH_WARNING_THRESHOLD)]
    ELSE IF value < LOW_WARNING_THRESHOLD
    THEN [tier |-> "warning",
          message |-> violation_message(value_type, value, "<", LOW_WARNING_THRESHOLD)]
    ELSE [tier |-> "none", message |-> ERROR_HEADER]

\* variant: one list for both tiers
violations_any_tier(checked, tier) ==
    LET all == [k \in 1..Len(checked) |->
                   violation_of(checked[k].value_type, checked[k].value)]
        mine == SelectSeq(all, LAMBDA v : v.tier # "none")
    IN  [k \in 1..Len(mine) |-> mine[k].message]

\* the lines appended to error_violations / warning_violations, in loop order
violations(checked, tier) ==
    LET all == [k \in 1..Len(checked) |->
                   violation_of(checked[k].value_type, checked[k].value)]
        mine == SelectSeq(all, LAMBDA v : v.tier = tier)
    IN  [k \in 1..Len(mine) |-> mine[k].message]

\* variant: violations[-3:] in place of violations[:3]
alert_lines_last3(header, tier_violations) ==
    <<header>>
    \o LastN(tier_violations, 3)
    \o (IF Len(tier_violations) > 3
        THEN <<more_message(Len(tier_violations) - 3)>> ELSE <<>>)

\* lines 134-145 for one tier: header, violations[:3], the count of the rest
alert_lines(header, tier_violations) ==
    <<header>>
    \o SubSeq(tier_violations, 1, IF Len(tier_violations) < 3 THEN Len(tier_violations) ELSE 3)
    \o (IF Len(tier_violations) > 3
        THEN <<more_message(Len(tier_violations) - 3)>> ELSE <<>>)

\* lines 123-131 raise: a None is compared with a threshold (TypeError)
check_thresholds_raises(pd) ==
    \E k \in 1..Len(values_to_check(pd)) : values_to_check(pd)[k].value = None

\* variant: the message list is built for the error tier only
check_thresholds_warning_unlisted(pd) ==
    LET checked == values_to_check(pd)
        error_violations == violations(checked, "error")
        warning_violations == violations(checked, "warning")
    IN  IF checked = <<>>
        THEN [alert_status |-> "normal", alert_messages |-> <<>>]
        ELSE IF \E k \in 1..Len(checked) : checked[k].value = None
        THEN [alert_status |-> "normal", alert_messages |-> <<>>]
        ELSE IF error_violations # <<>>
        THEN [alert_status |-> "error",
              alert_messages |-> alert_lines(ERROR_HEADER, error_violations)]
        ELSE IF warning_violations # <<>>
        THEN [alert_status |-> "warning", alert_messages |-> <<>>]
        ELSE [alert_status |-> "normal", alert_messages |-> <<>>]

\* check_thresholds, lines 97-151; comparing None raises TypeError, caught at 149
check_thresholds(pd) ==
    LET checked == values_to_check(pd)
        error_violations == violations(checked, "error")
        warning_violations == violations(checked, "warning")
    IN  IF checked = <<>>
        THEN [alert_status |-> "normal", alert_messages |-> <<>>]
        ELSE IF \E k \in 1..Len(checked) : checked[k].value = None
        THEN [alert_status |-> "normal", alert_messages |-> <<>>]
        ELSE IF error_violations # <<>>
        THEN [alert_status |-> "error",
              alert_messages |-> alert_lines(ERROR_HEADER, error_violations)]
        ELSE IF warning_violations # <<>>
        THEN [alert_status |-> "warning",
              alert_messages |-> alert_lines(WARNING_HEADER, warning_violations)]
        ELSE [alert_status |-> "normal", alert_messages |-> <<>>]

\* variant: the dictionary has no entry for 'warning'
color_map_no_warning(status) ==
    CASE status = "normal" -> "white"
      [] status = "error" -> "#FFB6C1"
      [] OTHER -> "white"

\* color_map.get(alert_status, 'white')
color_map(status) ==
    CASE status = "normal" -> "white"
      [] status = "warning" -> "#FFFACD"
      [] status = "error" -> "#FFB6C1"
      [] OTHER -> "white"

\* update_background_color, lines 153-166: the held colour and the drawn one
update_background_color(status, held, drawn) ==
    LET new_color == color_map(status)
    IN  IF new_color # held
        THEN [current_background_color |-> new_color, facecolor |-> new_color]
        ELSE [current_background_color |-> held, facecolor |-> drawn]

\* variant: the alert blinks, its visibility flipped on every call
update_alert_text_blink(status, messages, artist) ==
    IF messages # <<>>
    THEN [text |-> messages,
          color |-> IF status = "error" THEN "red" ELSE "orange",
          bbox |-> IF status = "error" THEN "#FFE4E1" ELSE "#FFF8DC",
          visible |-> ~artist.visible]
    ELSE [artist EXCEPT !.visible = FALSE]

\* update_alert_text, lines 341-356; the text is the lines joined by newlines
update_alert_text(status, messages, artist) ==
    IF messages # <<>>
    THEN [text |-> messages,
          color |-> IF status = "error" THEN "red" ELSE "orange",
          bbox |-> IF status = "error" THEN "#FFE4E1" ELSE "#FFF8DC",
          visible |-> TRUE]
    ELSE [artist EXCEPT !.visible = FALSE]

\* pd.to_datetime raises on a string that is no date
to_datetime_raises(ts) == ts.kind = "str" /\ ts.sfx \notin {"", "Z", "+00:00"}

\* pd.to_datetime: None stays None
to_datetime(ts) ==
    IF ts.kind # "str" THEN [hour |-> 0, tz |-> "None"]
    ELSE [hour |-> ts.hour, tz |-> IF ts.sfx = "" THEN "naive" ELSE "utc"]

\* variant: a list is taken from the bundle only when it is not empty
process_new_data_keep_nonempty(data, pd) ==
    IF \/ \E k \in 1..Len(data.sensor_timestamp) : to_datetime_raises(data.sensor_timestamp[k])
       \/ \E k \in 1..Len(data.future_timestamps) : to_datetime_raises(data.future_timestamps[k])
    THEN pd
    ELSE [sensor_data |-> IF data.sensor_data # <<>> THEN data.sensor_data
                          ELSE pd.sensor_data,
          sensor_timestamps |->
              IF data.sensor_timestamp # <<>>
              THEN [k \in 1..Len(data.sensor_timestamp) |-> to_datetime(data.sensor_timestamp[k])]
              ELSE pd.sensor_timestamps,
          forecasts |-> IF data.forecasts # <<>> THEN data.forecasts ELSE pd.forecasts,
          future_timestamps |->
              IF data.future_timestamps # <<>>
              THEN [k \in 1..Len(data.future_timestamps) |-> to_datetime(data.future_timestamps[k])]
              ELSE pd.future_timestamps,
          sensor_id |-> data.sensor_id]

\* variant: each key of plot_data is assigned as soon as its value is read
process_new_data_assign_early(data, pd) ==
    IF \/ \E k \in 1..Len(data.sensor_timestamp) : to_datetime_raises(data.sensor_timestamp[k])
       \/ \E k \in 1..Len(data.future_timestamps) : to_datetime_raises(data.future_timestamps[k])
    THEN [pd EXCEPT !.sensor_data = data.sensor_data, !.forecasts = data.forecasts,
                    !.sensor_id = data.sensor_id]
    ELSE [sensor_data |-> data.sensor_data,
          sensor_timestamps |->
              [k \in 1..Len(data.sensor_timestamp) |-> to_datetime(data.sensor_timestamp[k])],
          forecasts |-> data.forecasts,
          future_timestamps |->
              [k \in 1..Len(data.future_timestamps) |-> to_datetime(data.future_timestamps[k])],
          sensor_id |-> data.sensor_id]

\* process_new_data raises on the bundle: one of its timestamps is no date
process_new_data_raises(data) ==
    \/ \E k \in 1..Len(data.sensor_timestamp) : to_datetime_raises(data.sensor_timestamp[k])
    \/ \E k \in 1..Len(data.future_timestamps) : to_datetime_raises(data.future_timestamps[k])

\* process_new_data, lines 192-227: an exception leaves plot_data as it was
process_new_data(data, pd) ==
    IF \/ \E k \in 1..Len(data.sensor_timestamp) : to_datetime_raises(data.sensor_timestamp[k])
       \/ \E k \in 1..Len(data.future_timestamps) : to_datetime_raises(data.future_timestamps[k])
    THEN pd
    ELSE [sensor_data |-> data.sensor_data,
          sensor_timestamps |->
              [k \in 1..Len(data.sensor_timestamp) |-> to_datetime(data.sensor_timestamp[k])],
          forecasts |-> data.forecasts,
          future_timestamps |->
              [k \in 1..Len(data.future_timestamps) |-> to_datetime(data.future_timestamps[k])],
          sensor_id |-> data.sensor_id]

\* on_message of the screen, lines 373-387
on_message_screen(payload) ==
    /\ data_queue' = IF payload.kind = "object"
                     THEN Append(data_queue, payload) ELSE data_queue
    /\ screen_printed' = IF payload.kind = "object" THEN "Received message"
                         ELSE report("JSONDecodeError", "Error processing message")
    /\ UNCHANGED <<plot_data, current_background_color, facecolor, alert_text,
                   alert_status, alert_messages, prev_status, prev_messages>>

\* variant: a stack, the newest item is taken first
get_nowait_lifo(q) == [item |-> q[Len(q)], rest |-> SubSeq(q, 1, Len(q) - 1)]

\* queue.Queue.get_nowait on a queue that is not empty: the oldest item
get_nowait(q) == [item |-> Head(q), rest |-> Tail(q)]

\* update_plot, lines 172-177: one turn of the while loop
update_plot_get ==
    /\ data_queue # <<>>
    /\ data_queue' = get_nowait(data_queue).rest
    /\ plot_data' = process_new_data(get_nowait(data_queue).item, plot_data)
    /\ screen_printed' = IF process_new_data_raises(get_nowait(data_queue).item)
                         THEN report("ValueError", "Error processing new data")
                         ELSE "Processing data"
    /\ UNCHANGED <<current_background_color, facecolor, alert_text,
                   alert_status, alert_messages, prev_status, prev_messages>>

\* update_plot, lines 179-185, once the queue is found empty.  redraw_plot
\* only copies plot_data into the line artists and the info text.
update_plot_render ==
    /\ data_queue = <<>>
    /\ LET a == check_thresholds(plot_data)
           bg == update_background_color(a.alert_status, current_background_color,
                                         facecolor)
       IN  /\ alert_status' = a.alert_status
           /\ alert_messages' = a.alert_messages
           /\ prev_status' = alert_status
           /\ prev_messages' = alert_messages
           /\ current_background_color' = bg.current_background_color
           /\ facecolor' = bg.facecolor
           /\ alert_text' = update_alert_text(a.alert_status, a.alert_messages,
                                              alert_text)
    /\ screen_printed' = IF check_thresholds_raises(plot_data)
                         THEN report("TypeError", "Error checking thresholds")
                         ELSE screen_printed
    /\ UNCHANGED <<data_queue, plot_data>>

\* a forecast message as json.loads gives it; an absent list is []
Bundle(sensor_data, forecasts) ==
    [kind |-> "object", sensor_id |-> 1,
     sensor_timestamp |-> [k \in 1..Len(sensor_data) |-> Iso(k * HoursPerDay, "")],
     sensor_data |-> sensor_data,
     future_timestamps |->
         [k \in 1..Len(forecasts) |-> Iso((Len(sensor_data) + k) * HoursPerDay, "")],
     forecasts |-> forecasts]

NotJson == [kind |-> "invalid_json", sensor_id |-> None, sensor_timestamp |-> <<>>,
            sensor_data |-> <<>>, future_timestamps |-> <<>>, forecasts |-> <<>>]

\* the JSON object {}: every data.get gives its default
EmptyObject == [Bundle(<<>>, <<>>) EXCEPT !.sensor_id = None]

\* a bundle one of whose future timestamps is no date
BadTimestampBundle ==
    [Bundle(<<5>>, <<5>>) EXCEPT !.future_timestamps = <<Iso(0, "not a date")>>]

\* payloads arriving on the forecast topic
ScreenPayloads ==
    {NotJson,
     Bundle(<<19, 20>>, <<21, 22>>),
     Bundle(<<20>>, <<27>>),
     Bundle(<<20>>, <<28>>),
     Bundle(<<35>>, <<20, 27>>),
     Bundle(<<>>, <<>>),
     EmptyObject,
     Bundle(<<27>>, <<>>),
     Bundle(<<None>>, <<35>>),
     BadTimestampBundle}

Receive ==
    /\ Len(arrived) < MaxReadings
    /\ \E d \in Deliveries, fail_at \in FailAt :
          /\ on_message(d.payload, fail_at)
          /\ row' = d.row
          /\ deviations' = deviations + d.dev
    /\ UNCHANGED <<pvars, cvars, lvars>>

InitForecaster ==
    /\ temperatures = <<>>
    /\ timestamps = <<>>
    /\ model \in Models
    /\ msg = InvalidJson
    /\ printed = ""
    /\ published = <<>>
    /\ raised_at = 0
    /\ arrived = <<>>
    /\ row = 0
    /\ deviations = 0
    /\ calls = <<>>

InitPredict ==
    /\ new_data = <<>>
    /\ last_input = <<>>
    /\ future_forecasts = <<>>
    /\ step_i = 0
    /\ returned = <<>>
    /\ pc = "idle"

\* lines 27-35 and RealTimeForecastPlotter.__init__
InitScreen ==
    /\ data_queue = <<>>
    /\ plot_data = [sensor_data |-> <<>>, sensor_timestamps |-> <<>>,
                    forecasts |-> <<>>, future_timestamps |-> <<>>,
                    sensor_id |-> None]
    /\ current_background_color = "white"
    /\ facecolor = "white"
    /\ alert_text = [text |-> <<>>, color |-> "black", bbox |-> "white",
                     visible |-> TRUE]
    /\ alert_status = "unset"
    /\ alert_messages = <<>>
    /\ screen_printed = ""
    /\ prev_status = "unset"
    /\ prev_messages = <<>>
    /\ enqueued = <<>>
    /\ dequeued = <<>>

\* mqtt_listener.py, lines 12-14
InitListener ==
    /\ listener_temperatures = <<>>
    /\ listener_timestamps = <<>>
    /\ listener_printed = ""
    /\ observed = "any"

Init == InitForecaster /\ InitPredict /\ InitScreen /\ InitListener

Next == Receive

Spec == Init /\ [][Next]_vars

(* ----------------------------------------------------------------------- *)
(* predict_with_loaded_model, one pass of its loop at a time               *)
(* ----------------------------------------------------------------------- *)
\* temperatures a window is drawn from
WindowValues == {12, 31}

\* lines 73-77
PredictCall ==
    /\ pc = "idle"
    /\ IF Len(new_data) # lookback
       THEN /\ pc' = "raised"
            /\ UNCHANGED <<last_input, future_forecasts, step_i>>
       ELSE /\ pc' = "loop"
            /\ last_input' = rolling_begin(new_data).last_input
            /\ future_forecasts' = rolling_begin(new_data).future_forecasts
            /\ step_i' = 0
    /\ UNCHANGED <<new_data, returned>>
    /\ UNCHANGED <<fvars, cvars, lvars>>

\* lines 78-82: one pass
PredictPass ==
    /\ pc = "loop"
    /\ step_i < number_of_future_forecasts
    /\ LET st == rolling_step(model, [last_input |-> last_input,
                                      future_forecasts |-> future_forecasts,
                                      i |-> step_i])
       IN  /\ last_input' = st.last_input
           /\ future_forecasts' = st.future_forecasts
           /\ step_i' = st.i
    /\ UNCHANGED <<new_data, returned, pc>>
    /\ UNCHANGED <<fvars, cvars, lvars>>

\* line 79 raises
PredictRaise ==
    /\ pc = "loop"
    /\ step_i < number_of_future_forecasts
    /\ step_i + 1 \in FailAt
    /\ pc' = "raised"
    /\ UNCHANGED <<new_data, last_input, future_forecasts, step_i, returned>>
    /\ UNCHANGED <<fvars, cvars, lvars>>

\* lines 86-87
PredictReturn ==
    /\ pc = "loop"
    /\ step_i >= number_of_future_forecasts
    /\ returned' = rolling_end([last_input |-> last_input,
                                future_forecasts |-> future_forecasts,
                                i |-> step_i])
    /\ pc' = "done"
    /\ UNCHANGED <<new_data, last_input, future_forecasts, step_i>>
    /\ UNCHANGED <<fvars, cvars, lvars>>

InitPredictCall ==
    /\ InitForecaster
    /\ InitScreen
    /\ InitListener
    /\ new_data \in [1..lookback -> WindowValues] \cup {<<12, 31>>}
    /\ last_input = <<>>
    /\ future_forecasts = <<>>
    /\ step_i = 0
    /\ returned = <<>>
    /\ pc = "idle"

NextPredict == PredictCall \/ PredictPass \/ PredictRaise \/ PredictReturn

SpecPredict == InitPredictCall /\ [][NextPredict]_vars

(* ----------------------------------------------------------------------- *)
(* The screen: the MQTT thread's on_message against the render loop        *)
(* ----------------------------------------------------------------------- *)
ScreenReceive ==
    /\ Len(data_queue) < MaxQueue
    /\ \E payload \in ScreenPayloads : on_message_screen(payload)
    /\ UNCHANGED <<fvars, pvars, enqueued, dequeued, lvars>>

ScreenGet == update_plot_get /\ UNCHANGED <<fvars, pvars, enqueued, dequeued, lvars>>

ScreenRender == update_plot_render /\ UNCHANGED <<fvars, pvars, enqueued, dequeued, lvars>>

InitModelFixed ==
    /\ InitForecaster
    /\ InitPredict
    /\ InitListener
    /\ model = "constant"

InitScreenOnly == InitModelFixed /\ InitScreen

NextScreen == ScreenReceive \/ ScreenGet \/ ScreenRender

SpecScreen == InitScreenOnly /\ [][NextScreen]_vars

(* ----------------------------------------------------------------------- *)
(* check_thresholds on every presentation state of a bounded size          *)
(* ----------------------------------------------------------------------- *)
\* below, at, between and above each of the four thresholds
CheckValues == {5, 10, 18, 20, 25, 27, 30, 35}

RECURSIVE SeqsUpTo(_, _)
SeqsUpTo(S, n) ==
    IF n = 0 THEN {<<>>}
    ELSE LET shorter == SeqsUpTo(S, n - 1)
         IN  shorter \cup {Append(q, x) : q \in shorter, x \in S}

InitClassify ==
    /\ InitModelFixed
    /\ data_queue = <<>>
    /\ \E sd \in {<<>>} \cup {<<35, v>> : v \in CheckValues},
          fc \in SeqsUpTo(CheckValues, MaxForecasts) :
          plot_data = process_new_data(Bundle(sd, fc), [sensor_data |-> <<>>,
              sensor_timestamps |-> <<>>, forecasts |-> <<>>,
              future_timestamps |-> <<>>, sensor_id |-> None])
    /\ current_background_color = "white"
    /\ facecolor = "white"
    /\ alert_text = [text |-> <<>>, color |-> "black", bbox |-> "white",
                     visible |-> TRUE]
    /\ alert_status = "unset"
    /\ alert_messages = <<>>
    /\ screen_printed = ""
    /\ prev_status = "unset"
    /\ prev_messages = <<>>
    /\ enqueued = <<>>
    /\ dequeued = <<>>

NextClassify == ScreenRender

SpecClassify == InitClassify /\ [][NextClassify]_vars

(* ----------------------------------------------------------------------- *)
(* The forecaster's on_message, one statement at a time                    *)
(* ----------------------------------------------------------------------- *)
\* variant: the callback is handed to a worker thread, two may be running
can_dispatch_threaded(running) == Len(running) < 2

\* client.loop_forever() reads the socket and calls on_message on the one
\* thread it runs in: the next call starts when the last one has returned
can_dispatch(running) == running = <<>>

Remove(q, i) == SubSeq(q, 1, i - 1) \o SubSeq(q, i + 1, Len(q))

\* lines 102-105: json.loads and the two data.get; a payload that is no
\* object raises there and the call is over
Dispatch ==
    /\ Len(arrived) + Len(calls) < MaxReadings
    /\ can_dispatch(calls)
    /\ \E d \in Deliveries :
          /\ msg' = d.payload
          /\ row' = d.row
          /\ deviations' = deviations + d.dev
          /\ IF d.payload.kind # "object"
             THEN /\ printed' = IF d.payload.kind = "invalid_json"
                                THEN report("JSONDecodeError", "JSONDecodeError")
                                ELSE report("AttributeError", "AttributeError")
                  /\ published' = <<>>
                  /\ raised_at' = 0
                  /\ UNCHANGED calls
             ELSE /\ calls' = Append(calls, [payload |-> d.payload,
                                             pc |-> "temperatures"])
                  /\ UNCHANGED <<printed, published, raised_at>>
    /\ UNCHANGED <<temperatures, timestamps, arrived, model>>
    /\ UNCHANGED <<pvars, cvars, lvars>>

\* line 107
AppendTemperature ==
    /\ \E i \in 1..Len(calls) :
          /\ calls[i].pc = "temperatures"
          /\ temperatures' = deque_append(temperatures, calls[i].payload.temperature,
                                          lookback)
          /\ calls' = [calls EXCEPT ![i].pc = "timestamps"]
    /\ UNCHANGED <<timestamps, model, msg, printed, published, raised_at, arrived,
                   row, deviations>>
    /\ UNCHANGED <<pvars, cvars, lvars>>

\* line 108
AppendTimestamp ==
    /\ \E i \in 1..Len(calls) :
          /\ calls[i].pc = "timestamps"
          /\ timestamps' = deque_append(timestamps, calls[i].payload.timestamp,
                                        lookback)
          /\ arrived' = Append(arrived,
                               [temperature |-> calls[i].payload.temperature,
                                timestamp |-> calls[i].payload.timestamp,
                                sensor_id |-> calls[i].payload.sensor_id])
          /\ calls' = [calls EXCEPT ![i].pc = "branch"]
    /\ UNCHANGED <<temperatures, model, msg, printed, published, raised_at, row,
                   deviations>>
    /\ UNCHANGED <<pvars, cvars, lvars>>

\* lines 109-146, and the call returns
Branch ==
    /\ \E i \in 1..Len(calls), fail_at \in FailAt :
          /\ calls[i].pc = "branch"
          /\ LET out == forecast_branch(temperatures, timestamps, fail_at)
             IN  /\ printed' = out.printed
                 /\ raised_at' = out.raised_at
                 /\ published' = out.published
          /\ calls' = Remove(calls, i)
    /\ UNCHANGED <<temperatures, timestamps, model, msg, arrived, row, deviations>>
    /\ UNCHANGED <<pvars, cvars, lvars>>

NextSteps == Dispatch \/ AppendTemperature \/ AppendTimestamp \/ Branch

SpecSteps == InitScreenOnly /\ [][NextSteps]_vars

(* ----------------------------------------------------------------------- *)
(* The three programs, each with the loop that calls its handlers          *)
(* ----------------------------------------------------------------------- *)
\* readings the listener plots in one run
MaxListened == 4

Programs == {"forecaster", "screen", "listener"}

\* an exception that leaves a callback ends the loop that called it
loop_alive(program_printed) == program_printed # "Traceback"

\* payloads on the readings topic, as the listener sees them
ListenerPayloads ==
    {InvalidJson, JsonArray, Row(1), Row(2),
     [Row(3) EXCEPT !.temperature = None],
     [Row(4) EXCEPT !.timestamp = NoTimestamp]}

ForecasterHandles ==
    /\ observed = "forecaster"
    /\ loop_alive(printed)
    /\ Receive

ScreenHandles ==
    /\ observed = "screen"
    /\ loop_alive(screen_printed)
    /\ ScreenReceive

ScreenDrains ==
    /\ observed = "screen"
    /\ loop_alive(screen_printed)
    /\ ScreenGet

ScreenRenders ==
    /\ observed = "screen"
    /\ loop_alive(screen_printed)
    /\ ScreenRender

ListenerHandles ==
    /\ observed = "listener"
    /\ loop_alive(listener_printed)
    /\ Len(listener_temperatures) < MaxListened
    /\ \E payload \in ListenerPayloads : listener_on_message(payload)
    /\ UNCHANGED <<fvars, pvars, cvars, observed>>

InitHandlers ==
    /\ InitForecaster
    /\ InitPredict
    /\ InitScreen
    /\ model = "constant"
    /\ listener_temperatures = <<>>
    /\ listener_timestamps = <<>>
    /\ listener_printed = ""
    /\ observed \in Programs

NextHandlers ==
    \/ ForecasterHandles
    \/ ScreenHandles
    \/ ScreenDrains
    \/ ScreenRenders
    \/ ListenerHandles

SpecHandlers == InitHandlers /\ [][NextHandlers]_vars

(* ----------------------------------------------------------------------- *)
(* The screen's queue with its history: what was put, what was taken       *)
(* ----------------------------------------------------------------------- *)
\* two bundles that process, one that does not, and a payload that is no JSON
QueuePayloads ==
    {NotJson, Bundle(<<19, 20>>, <<21, 22>>), Bundle(<<20>>, <<27>>),
     BadTimestampBundle}

\* on_message on the MQTT thread (loop_start)
QueuePut ==
    /\ Len(enqueued) < MaxBundles
    /\ \E payload \in QueuePayloads :
          /\ on_message_screen(payload)
          /\ enqueued' = IF data_queue' # data_queue
                         THEN Append(enqueued, payload) ELSE enqueued
    /\ UNCHANGED <<fvars, pvars, dequeued, lvars>>

\* a turn of the drain loop on the render thread
QueueGet ==
    /\ update_plot_get
    /\ dequeued' = Append(dequeued, get_nowait(data_queue).item)
    /\ UNCHANGED <<fvars, pvars, enqueued, lvars>>

\* the rest of the tick
QueueRender == update_plot_render /\ UNCHANGED <<fvars, pvars, enqueued, dequeued, lvars>>

NextQueue == QueuePut \/ QueueGet \/ QueueRender

\* FuncAnimation calls update_plot every 500 ms: the drain loop goes on
SpecQueue == InitScreenOnly /\ [][NextQueue]_vars /\ WF_vars(QueueGet)
(* ----------------------------------------------------------------------- *)
(* Properties                                                              *)
(* ----------------------------------------------------------------------- *)
Min(a, b) == IF a < b THEN a ELSE b

\* C1: after N appended readings both deques have length min(N, lookback) and
\* hold exactly the last min(N, lookback) readings in arrival order, so a
\* reading arriving at a full window evicts the oldest entry and only that one.
C1_WindowIsLastReadings ==
    LET n == Min(Len(arrived), lookback)
    IN  /\ Len(temperatures) = n
        /\ Len(timestamps) = n
        /\ \A k \in 1..n :
              /\ temperatures[k] = arrived[Len(arrived) - n + k].temperature
              /\ timestamps[k] = arrived[Len(arrived) - n + k].timestamp

\* a reading arrived at a full window and the first reading is gone
C1_Witness ==
    /\ Len(arrived) > lookback
    /\ Len(temperatures) = lookback
    /\ temperatures[1] = arrived[Len(arrived) - lookback + 1].temperature
    /\ temperatures[1] # arrived[1].temperature

\* C2: a forecast message is published only from a window of exactly lookback
\* entries; each of the first lookback - 1 readings publishes nothing and
\* reports the missing history.
C2_PublishOnlyWhenFull ==
    /\ published # <<>> =>
          /\ Len(temperatures) = lookback
          /\ Len(timestamps) = lookback
          /\ Len(arrived) >= lookback
          /\ Len(published[1].sensor_data) = lookback
    /\ (msg.kind = "object" /\ Len(arrived) < lookback) =>
          /\ published = <<>>
          /\ printed = "Not enough data for prediction yet."

\* the lookback-th reading published
C2_Witness ==
    /\ Len(arrived) = lookback
    /\ published # <<>>

\* C3 is stated on the temperatures themselves: the predictor p is the model
\* applied between the scaler and its inverse.
EffectivePredictor(b) ==
    scaler_inverse_transform(
        predict(model, [k \in 1..Len(b) |-> scaler_transform(b[k])]))

\* the buffer the claim describes, before pass k + 1
RECURSIVE RollingBuffer(_, _)
RollingBuffer(w, k) ==
    IF k = 0 THEN w
    ELSE LET b == RollingBuffer(w, k - 1)
         IN  Append(Tail(b), EffectivePredictor(b))

\* C3: the buffer starts as the window; the k-th output is the predictor
\* applied to the buffer of pass k; the next buffer is that buffer without its
\* oldest element and with the k-th prediction appended; the buffer always has
\* lookback elements, each an element of the window or an earlier prediction.
C3_RollingForecast ==
    pc \in {"loop", "done"} =>
        /\ Len(last_input) = lookback
        /\ [k \in 1..Len(last_input) |-> scaler_inverse_transform(last_input[k])]
               = RollingBuffer(new_data, step_i)
        /\ \A k \in 1..step_i :
              scaler_inverse_transform(future_forecasts[k])
                  = EffectivePredictor(RollingBuffer(new_data, k - 1))
        /\ \A k \in 1..Len(last_input) :
              \/ \E j \in 1..Len(new_data) : last_input[k] = scaler_transform(new_data[j])
              \/ \E j \in 1..step_i : last_input[k] = future_forecasts[j]
        /\ pc = "done" =>
              /\ step_i = number_of_future_forecasts
              /\ Len(returned) = number_of_future_forecasts
              /\ \A k \in 1..number_of_future_forecasts :
                    returned[k] = EffectivePredictor(RollingBuffer(new_data, k - 1))

\* a forecast of a window of two temperatures whose outputs depend on the
\* buffer sliding: the oldest-value predictor replays the window
C3_Witness ==
    /\ pc = "done"
    /\ model = "oldest"
    /\ \E k \in 2..lookback : new_data[k] # new_data[1]
    /\ returned = new_data

\* the instant of an ISO string, in hours
Instant(s) == fromisoformat(replace_Z(s)).hour

\* C4: a published message has number_of_future_forecasts forecasts and as many
\* future timestamps, strictly increasing, the i-th being the window's last
\* timestamp plus i days.
C4_ForecastShape ==
    published # <<>> =>
        LET m == published[1]
            T == Instant(timestamps[Len(timestamps)])
        IN  /\ Len(m.forecasts) = number_of_future_forecasts
            /\ Len(m.future_timestamps) = number_of_future_forecasts
            /\ \A k \in 1..number_of_future_forecasts :
                  /\ m.future_timestamps[k].kind = "str"
                  /\ ~fromisoformat_raises(m.future_timestamps[k])
                  /\ Instant(m.future_timestamps[k]) = T + k * HoursPerDay
            /\ \A k \in 1..(number_of_future_forecasts - 1) :
                  Instant(m.future_timestamps[k]) < Instant(m.future_timestamps[k + 1])

\* a message published after the window has slid
C4_Witness ==
    /\ published # <<>>
    /\ Len(arrived) > lookback
    /\ Instant(published[1].future_timestamps[1])
           = Instant(msg.timestamp) + HoursPerDay

\* the values check_thresholds looks at: the last sensor value, the forecasts
Checked ==
    (IF plot_data.sensor_data # <<>>
     THEN <<plot_data.sensor_data[Len(plot_data.sensor_data)]>> ELSE <<>>)
    \o plot_data.forecasts

BreachesError(v) == v > HIGH_ERROR_THRESHOLD \/ v < LOW_ERROR_THRESHOLD

BreachesWarning(v) == v > HIGH_WARNING_THRESHOLD \/ v < LOW_WARNING_THRESHOLD

SomeBreachesError == \E k \in 1..Len(Checked) : BreachesError(Checked[k])

SomeBreachesWarning == \E k \in 1..Len(Checked) : BreachesWarning(Checked[k])

\* C5: the severity is error iff some checked value is beyond an error bound,
\* warning iff none is and some is beyond a warning bound, normal otherwise;
\* a value equal to a threshold does not breach it.
C5_Severity ==
    alert_status # "unset" =>
        /\ alert_status \in {"normal", "warning", "error"}
        /\ alert_status = "error" <=> SomeBreachesError
        /\ alert_status = "warning" <=> (~SomeBreachesError /\ SomeBreachesWarning)
        /\ Checked = <<5>> => alert_status = "error"
        /\ Checked = <<20>> => alert_status = "normal"
        /\ Checked = <<27>> => alert_status = "warning"
        /\ Checked = <<35>> => alert_status = "error"
        /\ Checked = <<HIGH_ERROR_THRESHOLD>> => alert_status = "warning"
        /\ Checked = <<LOW_ERROR_THRESHOLD>> => alert_status = "warning"
        /\ Checked = <<HIGH_WARNING_THRESHOLD>> => alert_status = "normal"
        /\ Checked = <<LOW_WARNING_THRESHOLD>> => alert_status = "normal"

\* values equal to the two error thresholds, and nothing worse: a warning
C5_Witness ==
    /\ alert_status = "warning"
    /\ Checked = <<HIGH_ERROR_THRESHOLD, LOW_ERROR_THRESHOLD>>

\* the violation lines of the returned list
ViolationLines == SelectSeq(alert_messages, LAMBDA e : e.kind = "violation")

\* the label check_thresholds gives the k-th checked value
LabelOf(k) ==
    IF k = 1 /\ plot_data.sensor_data # <<>> THEN "Current Sensor" ELSE "Forecast"

\* indices of the checked values that breach the reported tier, in order
RECURSIVE Breaching(_, _)
Breaching(k, status) ==
    IF k > Len(Checked) THEN <<>>
    ELSE (IF \/ status = "error" /\ BreachesError(Checked[k])
             \/ status = "warning" /\ BreachesWarning(Checked[k])
                   /\ ~BreachesError(Checked[k])
          THEN <<k>> ELSE <<>>)
         \o Breaching(k + 1, status)

\* C6: when model.predict raises in any pass nothing is published for that
\* reading, complete or partial; the reading stays in the window, appended
\* once; and the next reading is handled by a new forecast attempt.
C6_AtomicFailure ==
    [][/\ raised_at' # 0 =>
             /\ published' = <<>>
             /\ printed' = "PredictError"
             /\ msg'.kind = "object"
             /\ arrived' = Append(arrived, [temperature |-> msg'.temperature,
                                            timestamp |-> msg'.timestamp,
                                            sensor_id |-> msg'.sensor_id])
             /\ Len(temperatures') = lookback
             /\ temperatures'[lookback] = msg'.temperature
             /\ timestamps'[lookback] = msg'.timestamp
       /\ (raised_at # 0 /\ arrived' # arrived) =>
             /\ printed' # "Not enough data for prediction yet."
             /\ printed' = "" => Len(published') = 1
             /\ (raised_at' = 0 /\ msg'.timestamp.kind = "str"
                     /\ ~fromisoformat_raises(replace_Z(msg'.timestamp)))
                   => Len(published') = 1
      ]_vars

\* model.predict raised in the last pass, on a reading that arrived at a full
\* window
C6_Witness ==
    /\ raised_at = number_of_future_forecasts
    /\ Len(arrived) > lookback
    /\ published = <<>>
    /\ temperatures[lookback] = msg.temperature

\* what C7 calls malformed: no JSON, no object, no temperature or no timestamp
Malformed(p) ==
    \/ p.kind # "object"
    \/ p.temperature = None
    \/ p.timestamp.kind = "None"

\* C7: a malformed reading message publishes nothing and leaves both deques as
\* they were.
C7_MalformedDropped ==
    [][Malformed(msg') =>
          /\ published' = <<>>
          /\ temperatures' = temperatures
          /\ timestamps' = timestamps
      ]_vars

IsErrorLine(e) == e.threshold \in {HIGH_ERROR_THRESHOLD, LOW_ERROR_THRESHOLD}

\* C8: every checked value gives at most one violation line; a value beyond an
\* error bound is never listed as a warning; with severity error the list holds
\* the error header and error lines only; [5, 27] lists the 5 alone.
C8_ErrorPrecedence ==
    alert_status # "unset" =>
        /\ Len(ViolationLines) <= Len(Breaching(1, alert_status))
        /\ \A k \in 1..Len(ViolationLines) :
              LET e == ViolationLines[k]
              IN  (\/ e.value > format_2f(HIGH_ERROR_THRESHOLD)
                   \/ e.value < format_2f(LOW_ERROR_THRESHOLD)) <=> IsErrorLine(e)
        /\ alert_status = "error" =>
              /\ alert_messages[1] = ERROR_HEADER
              /\ \A k \in 1..Len(ViolationLines) : IsErrorLine(ViolationLines[k])
        /\ Checked = <<5, 27>> =>
              /\ alert_status = "error"
              /\ alert_messages = <<ERROR_HEADER,
                     violation_message(LabelOf(1), 5, "<", LOW_ERROR_THRESHOLD)>>

\* the sensor reads 5 and the one forecast is 27
C8_Witness ==
    /\ Checked = <<5, 27>>
    /\ alert_status = "error"
    /\ Len(alert_messages) = 2

\* C9: the list holds the header, then the first 3 violations of the reported
\* tier in evaluation order (the sensor value first, then the forecasts), then
\* one line counting the n - 3 others when n > 3 and no such line otherwise.
C9_FirstThreeAndCount ==
    /\ alert_status = "normal" => alert_messages = <<>>
    /\ alert_status \in {"warning", "error"} =>
          LET b == Breaching(1, alert_status)
              n == Len(b)
              shown == Min(n, 3)
          IN  /\ n > 0
              /\ Len(ViolationLines) = shown
              /\ \A j \in 1..shown :
                    /\ ViolationLines[j].value = format_2f(Checked[b[j]])
                    /\ ViolationLines[j].label = LabelOf(b[j])
              /\ alert_messages =
                    <<IF alert_status = "error" THEN ERROR_HEADER ELSE WARNING_HEADER>>
                    \o ViolationLines
                    \o (IF n > 3 THEN <<more_message(n - 3)>> ELSE <<>>)

\* four error violations, the fourth unlike the first: three listed, one counted
C9_Witness ==
    /\ alert_status = "error"
    /\ Len(Breaching(1, "error")) = 4
    /\ Checked[4] # Checked[1]
    /\ Len(alert_messages) = 5
    /\ alert_messages[5] = more_message(1)

\* C10: a tick whose assessment has the severity and the messages of the tick
\* before changes neither the held background colour, nor the colour drawn,
\* nor the alert text.
C10_NoChangeOnSameAssessment ==
    [][(/\ alert_status # "unset"
        /\ alert_status' = alert_status
        /\ alert_messages' = alert_messages)
          => UNCHANGED <<current_background_color, facecolor, alert_text>>
      ]_vars

\* two ticks in a row assessed the same warning
C10_Witness ==
    /\ prev_status = "warning"
    /\ alert_status = "warning"
    /\ prev_messages = alert_messages
    /\ alert_text.visible
    /\ current_background_color = color_map("warning")
\* what the display shows of the tracker: the background drawn and the alert
\* text, which is drawn only when visible and not empty
Shown ==
    [facecolor |-> facecolor,
     alert |-> IF alert_text.visible /\ alert_text.text # <<>>
               THEN <<alert_text>> ELSE <<>>]

\* the tick is the first update of a freshly constructed tracker
FirstUpdate == alert_status = "unset" /\ alert_status' # "unset"

\* the tick is the second update and repeats the assessment of the first
SecondUpdateSame ==
    /\ prev_status = "unset"
    /\ alert_status # "unset"
    /\ alert_status' = alert_status
    /\ alert_messages' = alert_messages

\* C11 as stated: for every assessment, the first update of a fresh tracker
\* changes the state shown and the second, identical, update changes nothing.
C11_FirstChangesSecondNot ==
    [][/\ FirstUpdate => (Shown' # Shown \/ current_background_color' # current_background_color)
       /\ SecondUpdateSame => UNCHANGED <<current_background_color, facecolor, alert_text>>
      ]_vars

\* C11 amended: for severity warning or error the first update of a fresh
\* tracker changes the background and shows the alert text, and for severity
\* normal it changes nothing shown (the tracker is constructed holding normal's
\* background and an empty alert text); the second, identical, update changes
\* nothing in either case.
C11_Idempotence ==
    [][/\ FirstUpdate =>
             /\ facecolor' # facecolor <=> alert_status' # "normal"
             /\ current_background_color' = facecolor'
             /\ Shown' # Shown <=> alert_status' # "normal"
             /\ alert_status' # "normal" =>
                   /\ alert_text'.visible
                   /\ alert_text'.text = alert_messages'
       /\ SecondUpdateSame => UNCHANGED <<current_background_color, facecolor, alert_text>>
      ]_vars

\* a fresh tracker was updated twice with the same error assessment
C11_Witness ==
    /\ prev_status = "error"
    /\ alert_status = "error"
    /\ prev_messages = alert_messages
    /\ facecolor = color_map("error")
    /\ alert_text.text = alert_messages
\* the bundle a turn of the drain loop takes from the queue
Dequeued == Head(data_queue)

\* a turn of the drain loop: one bundle leaves the queue
DrainTurn == data_queue # <<>> /\ data_queue' = Tail(data_queue)

\* C12: after a bundle B is processed successfully, sensor_data, forecasts and
\* sensor_id of plot_data are those of B, sensor_timestamps and
\* future_timestamps are B's timestamps as instants, an absent list is empty
\* and an absent sensor_id is None: nothing is kept from an earlier bundle.
C12_WholesaleReplace ==
    [][(DrainTurn /\ ~process_new_data_raises(Dequeued)) =>
          /\ plot_data'.sensor_data = Dequeued.sensor_data
          /\ plot_data'.forecasts = Dequeued.forecasts
          /\ plot_data'.sensor_id = Dequeued.sensor_id
          /\ Len(plot_data'.sensor_timestamps) = Len(Dequeued.sensor_timestamp)
          /\ \A k \in 1..Len(Dequeued.sensor_timestamp) :
                plot_data'.sensor_timestamps[k].hour = Dequeued.sensor_timestamp[k].hour
          /\ Len(plot_data'.future_timestamps) = Len(Dequeued.future_timestamps)
          /\ \A k \in 1..Len(Dequeued.future_timestamps) :
                plot_data'.future_timestamps[k].hour = Dequeued.future_timestamps[k].hour
          /\ Dequeued = EmptyObject =>
                plot_data' = [sensor_data |-> <<>>, sensor_timestamps |-> <<>>,
                              forecasts |-> <<>>, future_timestamps |-> <<>>,
                              sensor_id |-> None]
      ]_vars

\* a bundle without forecasts replaced one that had an error value: the
\* forecasts of the earlier bundle are gone
C12_Witness ==
    /\ prev_status = "error"
    /\ alert_status = "warning"
    /\ plot_data.sensor_data = <<27>>
    /\ plot_data.forecasts = <<>>
    /\ plot_data.future_timestamps = <<>>
\* the latest handler reported a failed forecast message: on_message's
\* "Error processing message" or process_new_data's "Error processing new data"
ConsumerFailure ==
    /\ screen_printed' \in {"Error processing message", "Error processing new data"}
    /\ (screen_printed' # screen_printed \/ data_queue' # data_queue)

\* C13: a forecast message that fails in on_message (no valid JSON) or in
\* process_new_data (an unparsable timestamp) leaves every field of plot_data,
\* the held background and the alert state as they were; a payload that fails
\* in on_message is not queued either.
C13_FailureLeavesState ==
    [][ConsumerFailure =>
          /\ UNCHANGED <<plot_data, current_background_color, facecolor,
                         alert_text, alert_status, alert_messages>>
          /\ screen_printed' = "Error processing message" => UNCHANGED data_queue
      ]_vars

\* a bundle with an unparsable timestamp was taken from the queue while the
\* screen held an earlier bundle and a warning
C13_Witness ==
    /\ screen_printed = "Error processing new data"
    /\ plot_data.sensor_data = <<20>>
    /\ plot_data.forecasts = <<27>>
    /\ alert_status = "warning"
    /\ current_background_color = "#FFFACD"
InitialPlotData ==
    [sensor_data |-> <<>>, sensor_timestamps |-> <<>>, forecasts |-> <<>>,
     future_timestamps |-> <<>>, sensor_id |-> None]

\* plot_data once the bundles of q were processed in order, starting from pd
RECURSIVE PresentationAfter(_, _)
PresentationAfter(q, pd) ==
    IF q = <<>> THEN pd
    ELSE LET B == q[Len(q)]
         IN  IF process_new_data_raises(B)
             THEN PresentationAfter(SubSeq(q, 1, Len(q) - 1), pd)
             ELSE [sensor_data |-> B.sensor_data,
                   sensor_timestamps |->
                       [k \in 1..Len(B.sensor_timestamp) |-> to_datetime(B.sensor_timestamp[k])],
                   forecasts |-> B.forecasts,
                   future_timestamps |->
                       [k \in 1..Len(B.future_timestamps) |-> to_datetime(B.future_timestamps[k])],
                   sensor_id |-> B.sensor_id]

\* the bundles put so far are those taken, in order, then those waiting, in
\* order; with nothing waiting plot_data is the latest bundle that processed
QueueOrder ==
    /\ enqueued = dequeued \o data_queue
    /\ plot_data = PresentationAfter(dequeued, InitialPlotData)
    /\ data_queue = <<>> => plot_data = PresentationAfter(enqueued, InitialPlotData)

\* C14: under every interleaving of on_message and the render loop each bundle
\* put on the queue is taken from it, once and in arrival order, and whenever
\* the queue is found empty plot_data is the last bundle in arrival order that
\* processed, never an older one.
C14_MostRecentWins ==
    /\ []QueueOrder
    /\ \A n \in 1..MaxBundles : (Len(enqueued) >= n) ~> (Len(dequeued) >= n)

\* three bundles were put and taken; the last one did not process, and the
\* second, the latest that did, is the one presented
C14_Witness ==
    /\ enqueued = <<Bundle(<<19, 20>>, <<21, 22>>), Bundle(<<20>>, <<27>>),
                    BadTimestampBundle>>
    /\ dequeued = enqueued
    /\ data_queue = <<>>
    /\ plot_data.sensor_data = <<20>>
    /\ plot_data.forecasts = <<27>>
\* the readings the window holds, oldest first, as they arrived
WindowReadings == LastN(arrived, lookback)

\* C15: the window used to forecast a sensor holds readings of that sensor
\* only, so a reading of another sensor neither enters it nor evicts from it,
\* and a published message carries the sensor_id of the readings that make up
\* its sensor_data.
C15_WindowPerSensor ==
    /\ \A j, k \in 1..Len(WindowReadings) :
          WindowReadings[j].sensor_id = WindowReadings[k].sensor_id
    /\ published # <<>> =>
          \A k \in 1..Len(WindowReadings) :
              WindowReadings[k].sensor_id = published[1].sensor_id
\* C16: invocations of on_message never overlap, and whenever none is running
\* the two deques have the same length and the i-th temperature and the i-th
\* timestamp are those of one message, the i-th of the window.
C16_Serialized ==
    /\ Len(calls) <= 1
    /\ calls = <<>> =>
          /\ Len(temperatures) = Len(timestamps)
          /\ Len(temperatures) = Len(WindowReadings)
          /\ \A k \in 1..Len(WindowReadings) :
                /\ temperatures[k] = WindowReadings[k].temperature
                /\ timestamps[k] = WindowReadings[k].timestamp
    /\ \A i \in 1..Len(calls) :
          calls[i].pc = "timestamps" => Len(temperatures) = Min(Len(timestamps) + 1, lookback)

\* a call is between its two appends at a full window: the deques are out of
\* step until it has made the second
C16_Witness ==
    /\ Len(calls) = 1
    /\ calls[1].pc = "timestamps"
    /\ Len(arrived) >= lookback
    /\ temperatures[lookback] = calls[1].payload.temperature
    /\ timestamps[lookback] # calls[1].payload.timestamp
\* a depth limit that a burst of MaxBundles bundles would exceed
QueueDepthLimit == MaxBundles - 1

\* C17: the bundles waiting between on_message and the render loop never
\* number more than the depth limit (a put that would exceed it drops the
\* oldest waiting bundle instead).
C17_BoundedQueue == Len(data_queue) <= QueueDepthLimit
\* the severity of one value
SeverityOf(v) ==
    IF BreachesError(v) THEN "error"
    ELSE IF BreachesWarning(v) THEN "warning" ELSE "normal"

\* C18: for a bundle without forecasts the tick reports no failure and the
\* severity is that of the last sensor value alone, its one violation line
\* labelled as the current sensor; for a bundle with neither sensor data nor
\* forecasts the severity is normal and the message list is empty.
C18_EmptyTolerated ==
    (alert_status # "unset" /\ plot_data.forecasts = <<>>) =>
        /\ screen_printed # "Error checking thresholds"
        /\ plot_data.sensor_data = <<>> =>
              /\ alert_status = "normal"
              /\ alert_messages = <<>>
        /\ plot_data.sensor_data # <<>> =>
              LET v == plot_data.sensor_data[Len(plot_data.sensor_data)]
              IN  /\ alert_status = SeverityOf(v)
                  /\ alert_status = "normal" => alert_messages = <<>>
                  /\ alert_status # "normal" =>
                        /\ Len(alert_messages) = 2
                        /\ alert_messages[2].label = "Current Sensor"
                        /\ alert_messages[2].value = format_2f(v)

\* no forecasts, and a last sensor value of 27 behind an earlier 35: a warning
C18_Witness ==
    /\ plot_data.forecasts = <<>>
    /\ plot_data.sensor_data = <<35, 27>>
    /\ alert_status = "warning"
    /\ Len(alert_messages) = 2
\* the constant c the predictor returns, as a temperature
ConstantForecast == scaler_inverse_transform(constant_output)

\* C19: with a predictor that returns the same constant for every input, each
\* pass stores that constant and the forecast returned for any window of
\* lookback values is number_of_future_forecasts copies of it.
C19_ConstantPredictor ==
    (model = "constant" /\ pc \in {"loop", "done"}) =>
        /\ \A k \in 1..step_i :
              scaler_inverse_transform(future_forecasts[k]) = ConstantForecast
        /\ pc = "done" =>
              returned = [k \in 1..number_of_future_forecasts |-> ConstantForecast]

\* a window of two different temperatures, neither of them the constant, was
\* forecast by the constant predictor
C19_Witness ==
    /\ model = "constant"
    /\ pc = "done"
    /\ Len(new_data) = lookback
    /\ new_data[1] # new_data[lookback]
    /\ \A k \in 1..lookback : new_data[k] # ConstantForecast
    /\ returned[1] = ConstantForecast
    /\ returned[number_of_future_forecasts] = ConstantForecast
\* a reading as the producer sends them: a number and a timestamp that parses
WellFormed(p) ==
    /\ p.kind = "object"
    /\ IsNumber(p.temperature)
    /\ p.timestamp.kind = "str"
    /\ ~fromisoformat_raises(replace_Z(p.timestamp))

\* the call handled a reading and model.predict did not raise in it
PredictorSucceeds == arrived' # arrived /\ raised_at' = 0

\* C20: once lookback readings have been appended, every well-formed reading
\* in whose call the predictor does not fail has exactly one forecast message
\* published by that call, built from the window that ends with it; no call
\* publishes more than one message.
C20_ForecastPerReading ==
    [][/\ Len(published') <= 1
       /\ (PredictorSucceeds /\ WellFormed(msg') /\ Len(arrived') >= lookback) =>
             /\ Len(published') = 1
             /\ published'[1].sensor_data[lookback] = msg'.temperature
             /\ published'[1].sensor_timestamp[lookback] = msg'.timestamp
             /\ printed' = ""
      ]_vars

\* the second reading after the window filled has its forecast published
C20_Witness ==
    /\ Len(arrived) = lookback + 2
    /\ WellFormed(msg)
    /\ Len(published) = 1
    /\ published[1].sensor_data[lookback] = msg.temperature
    /\ published[1].sensor_data[1] = arrived[3].temperature
\* C21: a published message carries the window as it stands after the
\* triggering reading was appended: sensor_data is the lookback temperatures
\* of the window in arrival order, sensor_timestamp their timestamps in the
\* same order, and the last of each is the triggering reading's.
C21_MessageCarriesWindow ==
    published # <<>> =>
        LET m == published[1]
        IN  /\ Len(m.sensor_data) = lookback
            /\ Len(m.sensor_timestamp) = lookback
            /\ m.sensor_data = temperatures
            /\ m.sensor_timestamp = timestamps
            /\ \A k \in 1..lookback :
                  /\ m.sensor_data[k] = WindowReadings[k].temperature
                  /\ m.sensor_timestamp[k] = WindowReadings[k].timestamp
            /\ m.sensor_data[lookback] = msg.temperature
            /\ m.sensor_timestamp[lookback] = msg.timestamp

\* the message published for the reading after the window filled: its first
\* entry is the second reading, its last the triggering one
C21_Witness ==
    /\ published # <<>>
    /\ Len(arrived) = lookback + 1
    /\ published[1].sensor_data[1] = arrived[2].temperature
    /\ published[1].sensor_data[1] # arrived[1].temperature
    /\ published[1].sensor_timestamp[lookback] = arrived[lookback + 1].timestamp
\* no handler has let an exception out
NoTraceback ==
    /\ printed # "Traceback"
    /\ screen_printed # "Traceback"
    /\ listener_printed # "Traceback"

\* C22: whatever the payloads so far, no on_message callback and no
\* update_plot tick has let an exception out to the loop that called it, and
\* the loop goes on: the next message is handled and the next tick runs.
C22_NoEscape ==
    /\ NoTraceback
    /\ (observed = "forecaster" /\ Len(arrived) < MaxReadings)
          => ENABLED ForecasterHandles
    /\ (observed = "screen" /\ Len(data_queue) < MaxQueue) => ENABLED ScreenHandles
    /\ (observed = "screen" /\ data_queue # <<>>) => ENABLED ScreenDrains
    /\ (observed = "screen" /\ data_queue = <<>>) => ENABLED ScreenRenders
    /\ (observed = "listener" /\ Len(listener_temperatures) < MaxListened)
          => ENABLED ListenerHandles

\* the tenth reading's timestamp was no date and its call failed; the
\* eleventh reading was handled and its forecast published
C22_Witness ==
    /\ observed = "forecaster"
    /\ Len(arrived) = lookback + 1
    /\ arrived[lookback].timestamp.sfx = "not a date"
    /\ published # <<>>
    /\ published[1].sensor_data[lookback] = msg.temperature

(* ----------------------------------------------------------------------- *)
(* C23                                                                     *)
(* ----------------------------------------------------------------------- *)
\* a window entry that is an ISO string datetime.fromisoformat accepts
Parsable(ts) == ts.kind = "str" /\ ~fromisoformat_raises(replace_Z(ts))

\* the instant an ISO string denotes
InstantOf(ts) == fromisoformat(replace_Z(ts)).hour

\* C23: in every published forecast message every future timestamp is
\* strictly later than every timestamp of sensor_timestamp, whatever the
\* order the readings arrived in
C23_FutureAfterWindow ==
    \A k \in DOMAIN published :
        \A i \in DOMAIN published[k].future_timestamps,
           j \in DOMAIN published[k].sensor_timestamp :
            Parsable(published[k].sensor_timestamp[j]) =>
                InstantOf(published[k].future_timestamps[i])
                    > InstantOf(published[k].sensor_timestamp[j])


(* ----------------------------------------------------------------------- *)
(* C24                                                                     *)
(* ----------------------------------------------------------------------- *)
\* a number outside the warning band [lowWarning, highWarning]
OutsideWarningBand(value) ==
    IsNumber(value)
    /\ (value < LOW_WARNING_THRESHOLD \/ value > HIGH_WARNING_THRESHOLD)

\* C24: classification does not fail open: in every presentation state,
\* check_thresholds returns normal only if no numeric checked value lies
\* outside the warning band, also when another checked value is null
C24_NoFailOpen ==
    check_thresholds(plot_data).alert_status = "normal" =>
        \A k \in 1..Len(values_to_check(plot_data)) :
            ~OutsideWarningBand(values_to_check(plot_data)[k].value)


(* ----------------------------------------------------------------------- *)
(* check_thresholds on presentation states that may hold a null            *)
(* ----------------------------------------------------------------------- *)
\* the values of CheckValues, and JSON null
AlertValues == CheckValues \cup {None}

InitAlert ==
    /\ InitModelFixed
    /\ data_queue = <<>>
    /\ \E sd \in {<<>>} \cup {<<35, v>> : v \in AlertValues},
          fc \in SeqsUpTo(AlertValues, MaxForecasts) :
          plot_data = process_new_data(Bundle(sd, fc), [sensor_data |-> <<>>,
              sensor_timestamps |-> <<>>, forecasts |-> <<>>,
              future_timestamps |-> <<>>, sensor_id |-> None])
    /\ current_background_color = "white"
    /\ facecolor = "white"
    /\ alert_text = [text |-> <<>>, color |-> "black", bbox |-> "white",
                     visible |-> TRUE]
    /\ alert_status = "unset"
    /\ alert_messages = <<>>
    /\ screen_printed = ""
    /\ prev_status = "unset"
    /\ prev_messages = <<>>
    /\ enqueued = <<>>
    /\ dequeued = <<>>

AlertTick == ScreenRender

SpecAlert == InitAlert /\ [][AlertTick]_vars

(* ----------------------------------------------------------------------- *)
(* C25                                                                     *)
(* ----------------------------------------------------------------------- *)
HeaderOf(status) == IF status = "error" THEN ERROR_HEADER ELSE WARNING_HEADER

\* header, up to 3 violations, then at most one count of the rest
WellShaped(status, messages) ==
    /\ messages[1] = HeaderOf(status)
    /\ Len(messages) <= 5
    /\ \A k \in 2..Len(messages) :
          \/ messages[k].kind = "violation" /\ k <= 4
          \/ messages[k].kind = "more" /\ k = Len(messages)

Consistent(status, messages) ==
    /\ status \in {"normal", "warning", "error"}
    /\ messages = <<>> <=> status = "normal"
    /\ messages # <<>> => WellShaped(status, messages)

\* C25: the severity and the messages check_thresholds returns agree: no
\* messages exactly when normal, otherwise the header of the severity first
\* and at most 5 entries; after a render tick the alert text is visible
\* exactly when the severity is not normal
C25_SeverityMatchesMessages ==
    /\ Consistent(check_thresholds(plot_data).alert_status,
                  check_thresholds(plot_data).alert_messages)
    /\ alert_status # "unset" =>
          /\ Consistent(alert_status, alert_messages)
          /\ alert_text.visible <=> alert_status # "normal"
          /\ alert_text.visible => alert_text.text = alert_messages

\* a tick has shown an error alert of five lines, the last one the count
C25_Witness ==
    /\ alert_status = "error"
    /\ Len(alert_messages) = 5
    /\ alert_messages[5] = more_message(1)
    /\ alert_text.visible
    /\ alert_text.text = alert_messages

====
